---- MODULE Spec2Model ----
(***************************************************************************)
(* ICONPortfolio (index.js): a client that provisions a GitHub Pages site  *)
(* with four awaited calls to the GitHub REST API.                         *)
(*                                                                         *)
(* State: the three instance fields (octokit, user, repository), the       *)
(* environment the module reads (process.env.AUTH_TOKEN, and the global    *)
(* scope in which the free identifier `octokit` is looked up), the         *)
(* requests in flight, and the position of the caller.  Every method is    *)
(* one action up to its `await` and one action for its continuation.       *)
(***************************************************************************)
EXTENDS Integers, Sequences, FiniteSets, TLC

\* Number of method calls an interactive caller makes in one run.
MaxOps == 4

-----------------------------------------------------------------------------
(* JavaScript values *)

\* null / undefined in an object-valued slot (this.user, this.repository).
Null == [null |-> TRUE]

\* undefined in a string-valued slot (an omitted argument, an unset variable).
Undefined == "undefined"

\* !x for a string-valued x.
Falsy(x) == x \in {Undefined, ""}

\* a ?? b
Coalesce(a, b) == IF a = Undefined THEN b ELSE a

Usernames == {"iconclub", "octo-user"}
TokenArgs == {Undefined, "tok_abc"}
EnvTokens == {Undefined, "env_tok"}
NameArgs == {Undefined, "demo-site", "missing-repo"}
FilePaths == {"index.html"}
\* File contents as UTF-8 bytes: the empty file and "<h1>".
Contents == {<< >>, <<60, 104, 49, 62>>}

-----------------------------------------------------------------------------
(* Errors *)

NoError == [kind |-> "none"]
TypeError == [kind |-> "TypeError"]
ReferenceError == [kind |-> "ReferenceError"]
\* What octokit.request rejects with; message is the remote body's message,
\* Undefined when the error carries no response body.
RequestError(m) == [kind |-> "RequestError", message |-> m]

\* error.response?.data?.message
ResponseMessage(err) ==
    IF err.kind = "RequestError" THEN err.message ELSE Undefined

-----------------------------------------------------------------------------
(* The remote API: what it may answer to a request *)

RemoteMessages == {Undefined, "Not Found"}
RemoteUsers == [login : Usernames]
RemoteRepositories ==
    {[name |-> "demo-site", id |-> 1], [name |-> "ICON-Web-Portfolio", id |-> 2]}

Ok(d) == [ok |-> TRUE, data |-> d]
Rejected(m) == [ok |-> FALSE, error |-> RequestError(m)]

PagesUrl(owner, repo) == "https://" \o owner \o ".github.io/" \o repo \o "/"

Responses(call) ==
    {Rejected(m) : m \in RemoteMessages} \cup
    CASE call.op = "authenticate" -> {Ok(u) : u \in RemoteUsers}
      [] call.op \in {"createRepository", "getRepository"} ->
            {Ok(r) : r \in RemoteRepositories}
      [] call.op = "uploadFileToRepository" -> {Ok([commit |-> "created"])}
      [] call.op = "createGithubPage" ->
            {Ok([url |-> PagesUrl(call.request.owner, call.request.repo)])}

-----------------------------------------------------------------------------
(* Library utilities *)

\* uuid.v4(): the k-th identifier generated in this run.  The library is
\* taken to return a value it has not returned before.
uuidv4(k) == "uuid-" \o ToString(k)

B64Alphabet ==
    << "A","B","C","D","E","F","G","H","I","J","K","L","M","N","O","P",
       "Q","R","S","T","U","V","W","X","Y","Z","a","b","c","d","e","f",
       "g","h","i","j","k","l","m","n","o","p","q","r","s","t","u","v",
       "w","x","y","z","0","1","2","3","4","5","6","7","8","9","+","/" >>

B64Char(n) == B64Alphabet[n + 1]

RECURSIVE convertToBase64(_)
convertToBase64(bytes) ==
    IF Len(bytes) = 0 THEN ""
    ELSE IF Len(bytes) = 1 THEN
        B64Char(bytes[1] \div 4) \o B64Char((bytes[1] % 4) * 16) \o "=="
    ELSE IF Len(bytes) = 2 THEN
        B64Char(bytes[1] \div 4)
        \o B64Char((bytes[1] % 4) * 16 + bytes[2] \div 16)
        \o B64Char((bytes[2] % 16) * 4) \o "="
    ELSE
        B64Char(bytes[1] \div 4)
        \o B64Char((bytes[1] % 4) * 16 + bytes[2] \div 16)
        \o B64Char((bytes[2] % 16) * 4 + bytes[3] \div 64)
        \o B64Char(bytes[3] % 64)
        \o convertToBase64(SubSeq(bytes, 4, Len(bytes)))

-----------------------------------------------------------------------------
VARIABLES
    env,          \* process.env.AUTH_TOKEN
    globalOctokit,\* whether the global scope binds the identifier `octokit`
    octokit,      \* this.octokit
    user,         \* this.user
    repository,   \* this.repository
    inflight,     \* calls suspended at `await octokit.request(...)`
    awaiting,     \* the call the caller is suspended on (0: none)
    pc,           \* the caller: "free", or the next statement of the script
    nOps,         \* method calls made so far
    uuidCount,    \* identifiers uuid.v4() has generated so far
    last,         \* the most recent call: arguments, request, log, outcome
    unnamed,      \* names requested by createRepository() calls without a name
    remoteAllOk   \* the remote has rejected no request so far

vars == <<env, globalOctokit, octokit, user, repository, inflight, awaiting,
          pc, nOps, uuidCount, last, unnamed, remoteAllOk>>

NoCall ==
    [inv |-> 0, op |-> "none", args |-> Null, userBefore |-> Null,
     repoBefore |-> Null, status |-> "returned", error |-> NoError,
     thrown |-> NoError, log |-> << >>, requests |-> 0, request |-> Null,
     response |-> Null, fetchUser |-> FALSE, derefNull |-> FALSE,
     value |-> Undefined]

\* A fresh call record for method op with arguments args.
NewCall(op, args) ==
    [NoCall EXCEPT !.inv = nOps + 1, !.op = op, !.args = args,
                   !.userBefore = user, !.repoBefore = repository,
                   !.status = "pending"]

Init ==
    /\ env \in EnvTokens
    /\ globalOctokit \in BOOLEAN
    /\ octokit = Null
    /\ user = Null
    /\ repository = Null
    /\ inflight = {}
    /\ awaiting = 0
    /\ pc \in {"free", "line161"}
    /\ nOps = 0
    /\ uuidCount = 0
    /\ last = NoCall
    /\ unnamed = << >>
    /\ remoteAllOk = TRUE

-----------------------------------------------------------------------------
(* The caller: the example script, or an interactive caller that awaits
   each call and may make any call with any arguments *)

ScriptLines == {"line161", "line162", "line163", "line179"}

\* The example call at the end of the file.
ScriptCall(line) ==
    CASE line = "line161" ->
            [op |-> "authenticate",
             args |-> [username |-> "iconclub", token |-> Undefined]]
      [] line = "line162" ->
            [op |-> "createRepository", args |-> [name |-> Undefined]]
      [] line = "line163" ->
            [op |-> "uploadFileToRepository",
             args |-> [filePath |-> "index.html",
                       content |-> <<60, 104, 49, 62>>]]
      [] line = "line179" -> [op |-> "createGithubPage", args |-> Null]

\* The statement after `line`; a rejected top-level await ends the module.
After(line, status) ==
    IF line = "free" THEN "free"
    ELSE IF status = "threw" THEN "aborted"
    ELSE CASE line = "line161" -> "line162"
           [] line = "line162" -> "line163"
           [] line = "line163" -> "line179"
           [] line = "line179" -> "end"

AllArguments(op) ==
    CASE op = "authenticate" -> [username : Usernames, token : TokenArgs]
      [] op = "createRepository" -> [name : NameArgs]
      [] op = "getRepository" -> [name : NameArgs \ {Undefined}]
      [] op = "uploadFileToRepository" ->
            [filePath : FilePaths, content : Contents]
      [] op = "createGithubPage" -> {Null}

\* The argument lists with which the caller may call op now.
Arguments(op) ==
    IF awaiting # 0 THEN {}
    ELSE IF pc = "free" THEN (IF nOps < MaxOps THEN AllArguments(op) ELSE {})
    ELSE IF pc \in ScriptLines /\ ScriptCall(pc).op = op
         THEN {ScriptCall(pc).args}
    ELSE {}

-----------------------------------------------------------------------------
(* async / await *)

Logged(call, line) ==
    [call EXCEPT !.log = Append(@, line), !.status = "returned"]

Threw(call, err) == [call EXCEPT !.status = "threw", !.thrown = err]

\* The async method settles without suspending: the caller runs on.
Return(call) ==
    /\ last' = call
    /\ awaiting' = 0
    /\ pc' = After(pc, call.status)
    /\ UNCHANGED inflight

\* The method is suspended at `await octokit.request(...)` and the caller
\* at its own `await` of the method.
Suspend(call) ==
    /\ last' = call
    /\ inflight' = inflight \cup {call}
    /\ awaiting' = call.inv
    /\ UNCHANGED pc

\* The method is suspended at `await octokit.request(...)` but the caller
\* does not wait for it.
Detach(call) ==
    /\ last' = call
    /\ inflight' = inflight \cup {call}
    /\ awaiting' = 0
    /\ pc' = After(pc, "returned")

\* The continuation of `call` has run to the end of the method as `done`.
Resume(call, done) ==
    /\ last' = done
    /\ inflight' = inflight \ {call}
    /\ IF awaiting = call.inv
       THEN awaiting' = 0 /\ pc' = After(pc, done.status)
       ELSE UNCHANGED <<awaiting, pc>>

-----------------------------------------------------------------------------
(* catch blocks *)

getUserCatch(call, err) ==
    Logged([call EXCEPT !.error = err],
           Coalesce(ResponseMessage(err),
                    "Can't get username for user " \o call.args.username
                    \o ". Please try again."))

createRepositoryCatch(call, err) ==
    Logged([call EXCEPT !.error = err],
           Coalesce(ResponseMessage(err),
                    "Can't create a new repository. Please try again."))

getRepositoryCatch(call, err) ==
    Logged([call EXCEPT !.error = err],
           Coalesce(ResponseMessage(err),
                    "Can't get the detail of the repository "
                    \o call.args.name))

\* The fallback names `repository`, a const of the try block, which is not
\* in scope in the catch block: evaluating it is a ReferenceError.
uploadFileToRepositoryCatch(call, err) ==
    IF ResponseMessage(err) # Undefined
    THEN Logged([call EXCEPT !.error = err], ResponseMessage(err))
    ELSE Threw([call EXCEPT !.error = err], ReferenceError)

\* The fallback reads this.repository.name: a TypeError when this.repository
\* is null.
createGithubPageCatch(call, err) ==
    IF ResponseMessage(err) # Undefined
    THEN Logged([call EXCEPT !.error = err], ResponseMessage(err))
    ELSE IF repository = Null
    THEN Threw([call EXCEPT !.error = err, !.derefNull = TRUE], TypeError)
    ELSE Logged([call EXCEPT !.error = err],
                "Can't create a Github Pages for the repository "
                \o repository.name)

Catch(call, err) ==
    CASE call.op = "authenticate" -> getUserCatch(call, err)
      [] call.op = "createRepository" -> createRepositoryCatch(call, err)
      [] call.op = "getRepository" -> getRepositoryCatch(call, err)
      [] call.op = "uploadFileToRepository" ->
            uploadFileToRepositoryCatch(call, err)
      [] call.op = "createGithubPage" -> createGithubPageCatch(call, err)

\* `await octokit.request(...)` inside a try block.  `octokit` is a free
\* identifier (the constructed handle is stored in this.octokit): where the
\* global scope does not bind it, evaluating it is a ReferenceError, raised
\* before the arguments are evaluated and before any request is made.
Request(call, req) ==
    IF globalOctokit
    THEN Suspend([call EXCEPT !.request = req, !.requests = @ + 1])
    ELSE Return(Catch(call, ReferenceError))

-----------------------------------------------------------------------------
(* What the methods build and store *)

\* authenticate's default parameter: token = process.env.AUTH_TOKEN.
DefaultToken(token) == IF token = Undefined THEN env ELSE token

\* A variant that calls this.getUser(username) without awaiting it.
AwaitGetUserDropped == FALSE

\* `await this.getUser(username)`: authenticate waits for getUser.
AwaitGetUser == TRUE

getUserRequest(username) ==
    [method |-> "GET", url |-> "/users/" \o username, username |-> username]

\* A variant that assigns this.user whatever the outcome of the request.
UserAfterOrNull(resp) == IF resp.ok THEN resp.data ELSE Null

\* this.user = (await octokit.request(...)).data: the assignment runs only
\* when the awaited request is fulfilled.
UserAfter(resp) == IF resp.ok THEN resp.data ELSE user

\* A variant whose default name leaves the generated identifier out.
RepositoryNameWithoutUuid(name, k) == Coalesce(name, "ICON Web Portfolio ")

\* name ?? `ICON Web Portfolio ${uuidv4()}`, k the next identifier.
RepositoryName(name, k) ==
    Coalesce(name, "ICON Web Portfolio " \o uuidv4(k))

createRepositoryRequest(name) ==
    [method |-> "POST", url |-> "/user/repos", name |-> name]

\* this.repository = (await octokit.request('POST /user/repos', ...)).data
CreatedRepository(resp) == IF resp.ok THEN resp.data ELSE repository

getRepositoryRequest(owner, name) ==
    [method |-> "GET", url |-> "/repos/" \o owner \o "/" \o name,
     owner |-> owner, repo |-> name]

\* A variant that stores the response's data whether or not there is one.
FetchedRepositoryOrNull(resp) == IF resp.ok THEN resp.data ELSE Null

\* A variant that merges the fetched descriptor into the stored one.
FetchedRepositoryMerged(resp) ==
    IF ~resp.ok THEN repository
    ELSE IF repository = Null THEN resp.data
    ELSE [resp.data EXCEPT !.id = repository.id]

\* const response = await octokit.request(...); this.repository = response.data
FetchedRepository(resp) == IF resp.ok THEN resp.data ELSE repository

uploadFileToRepositoryRequest(owner, repo, filePath, content) ==
    [method |-> "PUT",
     url |-> "/repos/" \o owner \o "/" \o repo \o "/contents/" \o filePath,
     owner |-> owner, repo |-> repo, path |-> filePath,
     message |-> "create a new " \o filePath,
     content |-> convertToBase64(content)]

createGithubPageRequest(owner, repo) ==
    [method |-> "POST", url |-> "/repos/" \o owner \o "/" \o repo \o "/pages",
     owner |-> owner, repo |-> repo,
     source |-> [branch |-> "main", path |-> "/"], build_type |-> "workflow"]

-----------------------------------------------------------------------------
(* The methods, up to their await *)

authenticate ==
    \E a \in Arguments("authenticate") :
        LET token == DefaultToken(a.token)
            c0 == [NewCall("authenticate", a) EXCEPT !.fetchUser = TRUE]
            c1 == IF Falsy(env) /\ Falsy(token)
                  THEN [c0 EXCEPT !.log = Append(@,
                        "Can't authenticate to Octokit with invalid token. Please recheck your token")]
                  ELSE c0
            c2 == [c1 EXCEPT !.request = getUserRequest(a.username),
                             !.requests = @ + 1]
        IN  /\ octokit' = [auth |-> token]
            /\ IF ~globalOctokit THEN Return(getUserCatch(c1, ReferenceError))
               ELSE IF AwaitGetUser THEN Suspend(c2)
               ELSE Detach(c2)
            /\ nOps' = nOps + 1
            /\ UNCHANGED <<env, globalOctokit, user, repository, uuidCount,
                           unnamed, remoteAllOk>>

createRepository ==
    \E a \in Arguments("createRepository") :
        LET c == NewCall("createRepository", a)
            name == RepositoryName(a.name, uuidCount + 1)
            generated == globalOctokit /\ a.name = Undefined
        IN  /\ Request(c, createRepositoryRequest(name))
            /\ uuidCount' = IF generated THEN uuidCount + 1 ELSE uuidCount
            /\ unnamed' = IF generated THEN Append(unnamed, name) ELSE unnamed
            /\ nOps' = nOps + 1
            /\ UNCHANGED <<env, globalOctokit, octokit, user, repository,
                           remoteAllOk>>

getRepository ==
    \E a \in Arguments("getRepository") :
        LET c == NewCall("getRepository", a)
        IN  /\ IF user = Null
               THEN Return(getRepositoryCatch([c EXCEPT !.derefNull = TRUE],
                                              TypeError))
               ELSE Request(c, getRepositoryRequest(user.login, a.name))
            /\ nOps' = nOps + 1
            /\ UNCHANGED <<env, globalOctokit, octokit, user, repository,
                           uuidCount, unnamed, remoteAllOk>>

uploadFileToRepository ==
    \E a \in Arguments("uploadFileToRepository") :
        LET c0 == NewCall("uploadFileToRepository", a)
            c1 == IF user = Null \/ repository = Null
                  THEN [c0 EXCEPT !.log = Append(@,
                        "Please authenticate and create repository methods before uploading a file")]
                  ELSE c0
        IN  /\ IF user = Null \/ repository = Null
               THEN Return(uploadFileToRepositoryCatch(
                               [c1 EXCEPT !.derefNull = TRUE], TypeError))
               ELSE Request(c1, uploadFileToRepositoryRequest(
                               user.login, repository.name, a.filePath,
                               a.content))
            /\ nOps' = nOps + 1
            /\ UNCHANGED <<env, globalOctokit, octokit, user, repository,
                           uuidCount, unnamed, remoteAllOk>>

createGithubPage ==
    \E a \in Arguments("createGithubPage") :
        LET c == NewCall("createGithubPage", a)
        IN  /\ IF user = Null \/ repository = Null
               THEN Return(createGithubPageCatch(
                               [c EXCEPT !.derefNull = TRUE], TypeError))
               ELSE Request(c, createGithubPageRequest(user.login,
                                                       repository.name))
            /\ nOps' = nOps + 1
            /\ UNCHANGED <<env, globalOctokit, octokit, user, repository,
                           uuidCount, unnamed, remoteAllOk>>

-----------------------------------------------------------------------------
(* The continuations: the awaited request is fulfilled or rejected *)

Settled(call, resp) == [call EXCEPT !.response = resp]

getUserSettled ==
    \E c \in inflight : \E r \in Responses(c) :
        /\ c.op = "authenticate"
        /\ user' = UserAfter(r)
        /\ Resume(c, IF r.ok
                     THEN Logged(Settled(c, r),
                                 UserAfter(r).login \o " is authenticated")
                     ELSE getUserCatch(Settled(c, r), r.error))
        /\ remoteAllOk' = (remoteAllOk /\ r.ok)
        /\ UNCHANGED <<env, globalOctokit, octokit, repository, nOps,
                       uuidCount, unnamed>>

createRepositorySettled ==
    \E c \in inflight : \E r \in Responses(c) :
        /\ c.op = "createRepository"
        /\ repository' = CreatedRepository(r)
        /\ Resume(c, IF r.ok
                     THEN Logged(Settled(c, r),
                                 CreatedRepository(r).name \o " was created")
                     ELSE createRepositoryCatch(Settled(c, r), r.error))
        /\ remoteAllOk' = (remoteAllOk /\ r.ok)
        /\ UNCHANGED <<env, globalOctokit, octokit, user, nOps, uuidCount,
                       unnamed>>

getRepositorySettled ==
    \E c \in inflight : \E r \in Responses(c) :
        /\ c.op = "getRepository"
        /\ repository' = FetchedRepository(r)
        /\ Resume(c, IF r.ok
                     THEN Logged(Settled(c, r),
                                 "Successfully get detail of "
                                 \o FetchedRepository(r).name)
                     ELSE getRepositoryCatch(Settled(c, r), r.error))
        /\ remoteAllOk' = (remoteAllOk /\ r.ok)
        /\ UNCHANGED <<env, globalOctokit, octokit, user, nOps, uuidCount,
                       unnamed>>

uploadFileToRepositorySettled ==
    \E c \in inflight : \E r \in Responses(c) :
        /\ c.op = "uploadFileToRepository"
        /\ Resume(c, IF r.ok
                     THEN Logged(Settled(c, r),
                                 c.args.filePath \o " is uploaded successfully")
                     ELSE uploadFileToRepositoryCatch(Settled(c, r), r.error))
        /\ remoteAllOk' = (remoteAllOk /\ r.ok)
        /\ UNCHANGED <<env, globalOctokit, octokit, user, repository, nOps,
                       uuidCount, unnamed>>

createGithubPageSettled ==
    \E c \in inflight : \E r \in Responses(c) :
        /\ c.op = "createGithubPage"
        /\ Resume(c, IF r.ok
                     THEN Logged(Settled(c, r),
                                 r.data.url \o " is being created")
                     ELSE createGithubPageCatch(Settled(c, r), r.error))
        /\ remoteAllOk' = (remoteAllOk /\ r.ok)
        /\ UNCHANGED <<env, globalOctokit, octokit, user, repository, nOps,
                       uuidCount, unnamed>>

Next ==
    \/ authenticate
    \/ createRepository
    \/ getRepository
    \/ uploadFileToRepository
    \/ createGithubPage
    \/ getUserSettled
    \/ createRepositorySettled
    \/ getRepositorySettled
    \/ uploadFileToRepositorySettled
    \/ createGithubPageSettled

Spec == Init /\ [][Next]_vars

-----------------------------------------------------------------------------
(* Properties *)

\* The call has ended in a failure: an error was raised in its try block.
Failed(call) == call.status # "pending" /\ call.error # NoError

Succeeded(call) == call.status = "returned" /\ call.error = NoError

PreconditionUnmet(call) == call.userBefore = Null \/ call.repoBefore = Null

\* C1: uploadFileToRepository or createGithubPage, called while User or
\* Repository is unset, issues no request, does not dereference the missing
\* object, and ends normally in a precondition failure.
C1_PreconditionFailsFast ==
    (/\ last.op \in {"uploadFileToRepository", "createGithubPage"}
     /\ PreconditionUnmet(last))
    => /\ last.requests = 0
       /\ ~last.derefNull
       /\ last.status = "returned"

\* C2: authenticate with no explicit token and no default token attempts no
\* fetchUser and issues no request.
C2_NoTokenNoFetchUser ==
    (/\ last.op = "authenticate"
     /\ last.args.token = Undefined
     /\ Falsy(env))
    => /\ ~last.fetchUser
       /\ last.requests = 0

\* C3: no call ends by throwing (rejecting) to its caller.
C3_NoOperationThrows == last.status # "threw"

\* C4 as claimed: every failed getRepository leaves Repository as it was and
\* reports the API's message.
C4_FailureCarriesApiMessage ==
    (last.op = "getRepository" /\ Failed(last))
    => /\ repository = last.repoBefore
       /\ ResponseMessage(last.error) # Undefined
       /\ last.log = <<ResponseMessage(last.error)>>

\* C4 as amended: a failed getRepository returns normally, leaves Repository
\* as it was, and has logged the API's message when the error carries one
\* and the fallback message naming the repository otherwise.
C4_FailureKeepsRepository ==
    (last.op = "getRepository" /\ Failed(last))
    => /\ repository = last.repoBefore
       /\ last.status = "returned"
       /\ last.log =
            << IF ResponseMessage(last.error) # Undefined
               THEN ResponseMessage(last.error)
               ELSE "Can't get the detail of the repository "
                    \o last.args.name >>

\* C4 witness: a remote 404 with a message, with a Repository in the session.
C4_Witness ==
    /\ last.op = "getRepository"
    /\ Failed(last)
    /\ last.error = RequestError("Not Found")
    /\ last.repoBefore # Null

\* C5: after authenticate with a resolvable token that the remote does not
\* reject, User is populated and its login is the given username.
C5_AuthenticatePopulatesUser ==
    (/\ last.op = "authenticate"
     /\ last.status # "pending"
     /\ ~Falsy(DefaultToken(last.args.token))
     /\ last.error.kind # "RequestError")
    => /\ user # Null
       /\ user.login = last.args.username

\* C6: with a remote that rejects nothing, the example script runs all four
\* steps, the session holds User and Repository, and createGithubPage
\* returns the Pages URL of that owner and repository.
C6_ScriptYieldsPagesUrl ==
    (pc \notin ScriptLines /\ pc # "free" /\ remoteAllOk)
    => /\ pc = "end"
       /\ user # Null
       /\ repository # Null
       /\ last.value = PagesUrl(user.login, repository.name)

\* C7: a createRepository request carries the given name, or, with no name
\* given, "ICON Web Portfolio " followed by a generated identifier; no two
\* requests made without a name carry the same name.
C7_RequestedNames ==
    /\ \A c \in inflight \cup {last} :
          (c.op = "createRepository" /\ c.requests > 0)
          => IF c.args.name = Undefined
             THEN \E k \in 1..uuidCount :
                     c.request.name = "ICON Web Portfolio " \o uuidv4(k)
             ELSE c.request.name = c.args.name
    /\ \A i, j \in 1..Len(unnamed) : i # j => unnamed[i] # unnamed[j]

\* C7 witness: the second request made without a name.
C7_Witness ==
    /\ Len(unnamed) >= 2
    /\ last.op = "createRepository"
    /\ last.args.name = Undefined
    /\ last.requests = 1

\* C8: at most one request is outstanding, it belongs to the most recent
\* call, the caller is suspended on it, and no call issues a second request.
C8_Sequential ==
    /\ Cardinality(inflight) <= 1
    /\ \A c \in inflight :
          c.inv = nOps /\ awaiting = c.inv /\ c.requests = 1 /\ last = c
    /\ last.requests <= 1
    /\ nOps >= last.inv

\* C8 witness: a later step's request outstanding after an earlier step's
\* request was rejected.
C8_Witness ==
    /\ inflight # {}
    /\ nOps >= 2
    /\ ~remoteAllOk

\* C9: the session starts empty, holds one User and one Repository at most,
\* holds exactly the returned descriptor after a successful createRepository
\* or getRepository, and getRepository requests the session User's login as
\* owner.
C9_Session ==
    /\ nOps = 0 => (user = Null /\ repository = Null)
    /\ user \in {Null} \cup RemoteUsers
    /\ repository \in {Null} \cup RemoteRepositories
    /\ (last.op \in {"createRepository", "getRepository"} /\ Succeeded(last))
       => repository = last.response.data
    /\ \A c \in inflight \cup {last} :
          (c.op = "getRepository" /\ c.requests > 0)
          => /\ c.request.owner = c.userBefore.login
             /\ c.request.repo = c.args.name

\* C9 witness: a successful getRepository replaced a different Repository.
C9_Witness ==
    /\ last.op = "getRepository"
    /\ Succeeded(last)
    /\ last.repoBefore # Null
    /\ last.repoBefore.id # repository.id
    /\ last.repoBefore.name # repository.name

\* C10: User differs from what it was when the most recent call began only
\* after a successful fetchUser, Repository only after a successful
\* createRepository or getRepository.
C10_Frame ==
    /\ user # last.userBefore
       => last.op = "authenticate" /\ Succeeded(last)
    /\ repository # last.repoBefore
       => last.op \in {"createRepository", "getRepository"} /\ Succeeded(last)

\* C10 witness: a failed fetchUser or createRepository, or a rejected
\* upload, with User and Repository in the session.
C10_Witness ==
    /\ last.op \in {"authenticate", "createRepository",
                    "uploadFileToRepository"}
    /\ Failed(last)
    /\ last.requests = 1
    /\ user # Null
    /\ repository # Null

====
